---------------------------- MODULE Spec2Model ----------------------------
(***************************************************************************)
(* Verification model of the AppStat teaching notebooks.                   *)
(*                                                                         *)
(* Week2/LikelihoodFit: the manual scan of chi2, binned and unbinned       *)
(* likelihood over a grid of tau hypotheses, the search for the minimum,   *)
(* the parabola fits on a window around it and the +-1 sigma threshold     *)
(* scan.                                                                   *)
(*                                                                         *)
(* Numbers.  Python floats are modelled in two ways.                       *)
(*  - tau-like quantities (min_tau, max_tau, delta_tau, tau[], min_fit,    *)
(*    max_fit, the minimum positions) are binary floating point numbers    *)
(*    with a MantBits-bit mantissa: an integer m * 2^k with m < 2^MantBits.*)
(*    Every arithmetic result is rounded to the nearest such number, ties  *)
(*    to even, as IEEE-754 does with 53 bits.                              *)
(*  - scores (chi2, bllh, ullh and their terms) are fixed point numbers    *)
(*    counted in units of 1/Scale; PosInf stands for the float +inf that   *)
(*    -2*log(0) produces.                                                  *)
(* np.exp cannot be computed here: the expected count of a bin and the     *)
(* density of an event at one hypothesis are inputs of the scan step,      *)
(* drawn from finite sets (HypoResponses, NexpVals, DensVals).             *)
(***************************************************************************)
EXTENDS Integers, Sequences, FiniteSets

(***************************************************************************)
(* Bounds of the model.                                                    *)
(***************************************************************************)
MantBits == 4          \* mantissa width of the modelled floats
Scale == 4             \* score units per 1.0
MaxTauSteps == 3       \* Ntau_steps ranges over 1..MaxTauSteps
MaxEvents == 2         \* largest Ntimes of the evaluator specification
MaxX == 2              \* longest argument array of the parabola functions
MaxParabolaSteps == 4  \* Ntau_steps ranges over 1..MaxParabolaSteps on the parabola
NScan == 3             \* points of the chi2 scan of TheChiSquareMiracle (200 there)

(***************************************************************************)
(* Floating point arithmetic on tau-like quantities.                       *)
(***************************************************************************)
RECURSIVE QuantumFrom(_, _, _)
QuantumFrom(a, den, q) ==
    IF a < (2 ^ MantBits) * q * den THEN q ELSE QuantumFrom(a, den, 2 * q)

\* The float nearest to the rational num/den (den > 0), ties to even.
FRound(num, den) ==
    LET s  == IF num < 0 THEN -1 ELSE 1
        a  == s * num
        q  == QuantumFrom(a, den, 1)
        d  == den * q
        f  == a \div d
        r2 == 2 * (a % d)
        up == (r2 > d) \/ (r2 = d /\ f % 2 = 1)
    IN  s * (IF up THEN f + 1 ELSE f) * q

FAdd(a, b) == FRound(a + b, 1)
FSub(a, b) == FRound(a - b, 1)
FMul(a, b) == FRound(a * b, 1)
FDiv(a, b) == FRound(a, b)


(***************************************************************************)
(* Scores: fixed point numbers in units of 1/Scale, and +inf.              *)
(***************************************************************************)
\* The float +inf: the value of -2.0*np.log(0.0).
PosInf == 2 ^ 30

\* Float addition of scores: inf + x = inf.
SAdd(a, b) == IF a = PosInf \/ b = PosInf THEN PosInf ELSE a + b

\* Scale*log2(p/q) for p, q > 0: exact at the powers of two, linear between.
RECURSIVE Log2U(_, _)
Log2U(p, q) ==
    IF p >= 2 * q THEN Scale + Log2U(p, 2 * q)
    ELSE IF p < q THEN Log2U(2 * p, q) - Scale
    ELSE ((p - q) * Scale) \div q

\* np.log of a positive number x/Scale, in units of 1/Scale (ln 2 = 0.693).
LnU(x) == (Log2U(x, Scale) * 693) \div 1000

\* Scale * ln(k!)
RECURSIVE LnFactU(_)
LnFactU(k) == IF k <= 1 THEN 0 ELSE LnFactU(k - 1) + LnU(k * Scale)

\* -2.0*np.log(stats.poisson.pmf(int(nobs), nexp)) for nexp >= 0:
\* pmf(0, 0) = 1 and pmf(k, 0) = 0 for k > 0.
NegTwoLogPoisson(nobs, nexp) ==
    IF nexp = 0
    THEN (IF nobs = 0 THEN 0 ELSE PosInf)
    ELSE 2 * nexp - 2 * nobs * LnU(nexp) + 2 * LnFactU(nobs)

\* -2.0*np.log(density) for density >= 0: np.log(0.0) is -inf.
NegTwoLog(dens) == IF dens = 0 THEN PosInf ELSE 0 - 2 * LnU(dens)

(***************************************************************************)
(* The three evaluators, one bin or one event at a time.                   *)
(***************************************************************************)
\* Variant of Chi2Add that also skips the bins holding a single event.
Chi2SkipZeroOnlyAboveOne(acc, nobs, nexp) ==
    IF nobs > 1
    THEN acc + ((nobs * Scale - nexp) * (nobs * Scale - nexp)) \div (nobs * Scale)
    ELSE acc

\* Variant of Chi2Add that adds the signed residual instead of its square.
Chi2SignedResidual(acc, nobs, nexp) ==
    IF nobs > 0
    THEN acc + ((nobs * Scale - nexp) * Scale) \div (nobs * Scale)
    ELSE acc

\* if (nobs > 0): chi2[itau] += (nobs-nexp)**2 / nobs
Chi2Add(acc, nobs, nexp) ==
    IF nobs > 0
    THEN acc + ((nobs * Scale - nexp) * (nobs * Scale - nexp)) \div (nobs * Scale)
    ELSE acc

\* bllh[itau] += -2.0*np.log(stats.poisson.pmf(int(nobs), nexp))
BllhAdd(acc, nobs, nexp) == SAdd(acc, NegTwoLogPoisson(nobs, nexp))

\* ullh[itau] += -2.0*np.log(1.0/tau_hypo*np.exp(-time/tau_hypo))
UllhAdd(acc, dens) == SAdd(acc, NegTwoLog(dens))

(***************************************************************************)
(* State of the LikelihoodFit notebook.                                    *)
(***************************************************************************)
VARIABLES
    Ntau_steps, min_tau, max_tau,   \* the grid settings
    min_fit, max_fit,               \* the fit window settings
    t, yExp,                        \* the observation set and its histogram
    pc,                             \* the statement or cell that runs next
    itau, ibin, ievt,               \* loop counters
    hypo,                           \* nexp per bin, density per event at tau_hypo
    tau, chi2, bllh, ullh,          \* the hypothesis grid and the score curves
    chi2_minval, chi2_minpos,
    bllh_minval, bllh_minpos,
    ullh_minval, ullh_minpos,
    indexes, fit,                   \* the fit window mask and the fit results
    found_lower, found_upper, tau_lower, tau_upper,
    scan_out,                       \* what the threshold scan cell printed
    chi2_own,                       \* chi2_owncalc of TheChiSquareMiracle
    err,                            \* the uncertainty of the symmetric fit
    X, ret,                         \* argument and results of the parabola functions
    rho12, sig1, sig2,              \* error propagation: the inputs,
    exc, ran, vSigmaCorr,           \* the exception raised, the cells run, sigma_LW
    visits, owncalls,               \* history: the indices the two scan loops evaluated
    y_chi2, i_chi2,                 \* the chi2 scan of TheChiSquareMiracle
    Ntimes_set,                     \* Ntimes as the settings cell gives it
    rng,                            \* the state of the generator np.random
    oracle,                         \* what np.exp and Minuit compute, fixed for a run
    run, first,                     \* the execution under way, the results of the first
    p0_list, chi2_list, shown,      \* Chi2_minimization_animation: the lists, the figure
    xmin, xmax, mask_range,         \* coffee usage: the fit range and its mask,
    mfit_coffee, fit_info,          \* the straight-line fit and the reported legend
    N_experiments, N_uniform,       \* central limit theorem: the settings,
    N_exponential, N_cauchy,
    iexp, x_sum, N3_sigma,          \* the experiment loop, the sums, the 3-sigma counter
    save_plots, figs, saved         \* error propagation: the figure names bound, the files

settings == <<Ntau_steps, min_tau, max_tau, min_fit, max_fit>>
data     == <<t, yExp>>
curves   == <<tau, chi2, bllh, ullh>>
minima   == <<chi2_minval, chi2_minpos, bllh_minval, bllh_minpos,
              ullh_minval, ullh_minpos>>
fitvars  == <<indexes, fit>>
thrvars  == <<found_lower, found_upper, tau_lower, tau_upper, scan_out>>
para     == <<X, ret>>
corrnb   == <<rho12, sig1, sig2, exc, ran, vSigmaCorr>>
miracle  == <<owncalls, y_chi2, i_chi2>>
loops    == <<visits, miracle>>
twice    == <<Ntimes_set, rng, oracle, run, first>>
anim     == <<p0_list, chi2_list, shown>>
coffee   == <<xmin, xmax, mask_range, mfit_coffee, fit_info>>
clt      == <<N_experiments, N_uniform, N_exponential, N_cauchy, iexp, x_sum, N3_sigma>>
plots    == <<save_plots, figs, saved>>
notpara  == <<corrnb, loops, twice, anim, coffee, clt, plots>>
notcorr  == <<para, loops, twice, anim, coffee, clt>>
notloops == <<para, corrnb, twice, anim, coffee, clt, plots>>
nottwice == <<para, corrnb, miracle, anim, coffee, clt, plots>>
notanim  == <<para, corrnb, loops, twice, coffee, clt, plots>>
notcoffee == <<para, corrnb, loops, twice, anim, clt, plots>>
notclt   == <<para, corrnb, loops, twice, anim, coffee, plots>>
aside    == <<para, corrnb, loops, twice, anim, coffee, clt, plots>>
vars     == <<settings, data, pc, itau, ibin, ievt, hypo, curves, minima,
              fitvars, thrvars, chi2_own, err, aside>>

(***************************************************************************)
(* Settings and data.                                                      *)
(***************************************************************************)
Nbins == 2             \* bins of the histogram (the notebook uses 50)

Bins == 0 .. (Nbins - 1)

\* An event is known by the bin its time falls in; Nbins stands for a time
\* beyond tmax, which np.histogram(t, bins=Nbins, range=(0, tmax)) leaves out.
EventClasses == 0 .. Nbins

\* yExp, xExp_edges = np.histogram(t, bins=Nbins, range=(0, tmax))
Histogram(times) ==
    [b \in Bins |-> Cardinality({i \in 1 .. Len(times) : times[i] = b})]

Ntimes == Len(t)

\* delta_tau = (max_tau-min_tau) / Ntau_steps
delta_tau == FDiv(FSub(max_tau, min_tau), Ntau_steps)

\* tau_hypo = min_tau + itau*delta_tau
TauHypo(i) == FAdd(min_tau, FMul(i, delta_tau))

GridIdx == 0 .. Ntau_steps

\* np.zeros(Ntau_steps+1)
Zeros(n) == [i \in 0 .. n |-> 0]

\* chi2_minval = 999999.9
MinvalInit == (9999999 * Scale) \div 10

NoHypo == [nexp |-> [b \in Bins |-> 0], dens |-> <<>>]
NoFit  == [done |-> FALSE, minval |-> 0, minpos |-> 0, quadratic |-> 0,
           quadlow |-> 0, quadhigh |-> 0]

\* The state every specification starts from, the inputs left open.
Fresh(N, lo, hi, wlo, whi, times) ==
    /\ Ntau_steps = N /\ min_tau = lo /\ max_tau = hi
    /\ min_fit = wlo /\ max_fit = whi
    /\ t = times /\ yExp = Histogram(times)
    /\ itau = 0 /\ ibin = 0 /\ ievt = 0
    /\ tau = Zeros(N) /\ chi2 = Zeros(N) /\ bllh = Zeros(N) /\ ullh = Zeros(N)
    /\ chi2_minval = MinvalInit /\ chi2_minpos = 0
    /\ bllh_minval = MinvalInit /\ bllh_minpos = 0
    /\ ullh_minval = MinvalInit /\ ullh_minpos = 0
    /\ indexes = {} /\ fit = NoFit
    /\ found_lower = FALSE /\ found_upper = FALSE
    /\ tau_lower = 0 /\ tau_upper = 0 /\ scan_out = "none"
    /\ chi2_own = 0
    /\ err = 0

NoRet == [para |-> <<>>, asym |-> <<>>, calls |-> {}]

ParaIdle == X = <<>> /\ ret = NoRet

CorrIdle ==
    /\ rho12 = 0 /\ sig1 = 0 /\ sig2 = 0
    /\ exc = "none" /\ ran = {} /\ vSigmaCorr = 0

NoFigure == [p0 |-> 0, chi2 |-> 0, points |-> <<>>]

\* p0_list = []; chi2_list = []
AnimIdle == p0_list = <<>> /\ chi2_list = <<>> /\ shown = NoFigure

NoMinuit == [n |-> 0, p1num |-> 0, p1den |-> 1, fval |-> 0, valid |-> FALSE]

NoLegend == [chi2_lin |-> 0, Ndof_lin |-> 0, shown |-> FALSE]

\* the coffee notebook before its first fit cell
CoffeeIdle ==
    /\ xmin = 0 /\ xmax = 0 /\ mask_range = <<>>
    /\ mfit_coffee = NoMinuit /\ fit_info = NoLegend

\* the central limit notebook before its settings cell
CltIdle ==
    /\ N_experiments = 0 /\ N_uniform = 0 /\ N_exponential = 0 /\ N_cauchy = 0
    /\ iexp = 0 /\ x_sum = <<>> /\ N3_sigma = 0

\* save_plots = False, no figure made yet
PlotsIdle == save_plots = FALSE /\ figs = {} /\ saved = {}

LaterIdle == CoffeeIdle /\ CltIdle /\ PlotsIdle

\* y_chi2 = np.zeros(len(x_chi2)), the loop not started
MiracleIdle == owncalls = <<>> /\ y_chi2 = Zeros(NScan - 1) /\ i_chi2 = 0

NoResults == [t |-> <<>>]

\* One execution, the generator not looked at.
TwiceIdle ==
    /\ Ntimes_set = 0 /\ rng = 0 /\ run = 1 /\ first = NoResults
    /\ oracle = [profile |-> <<>>, quadratic |-> 0]

\* Nothing of the cells outside the scan has run.
AsideIdle == ParaIdle /\ CorrIdle /\ MiracleIdle /\ AnimIdle /\ LaterIdle /\ visits = <<>> /\ TwiceIdle

(***************************************************************************)
(* SpecGrid: the hypothesis grid of the scan loop, for many settings.      *)
(***************************************************************************)
MinTauVals == {8, 9, 10, 12}
MaxTauVals == {24, 26, 28, 32, 40, 44, 60}

InitGrid ==
    \E N \in 1 .. MaxTauSteps, lo \in MinTauVals, hi \in MaxTauVals :
        /\ Fresh(N, FRound(lo, 1), FRound(hi, 1), 1, 1, <<>>)
        /\ hypo = NoHypo
        /\ pc = "grid"
        /\ AsideIdle

\* for itau in range(Ntau_steps+1): tau_hypo = ...; tau[itau] = tau_hypo
GridStep ==
    /\ pc = "grid"
    /\ itau <= Ntau_steps
    /\ tau' = [tau EXCEPT ![itau] = TauHypo(itau)]
    /\ itau' = itau + 1
    /\ UNCHANGED <<err, aside, settings, data, pc, ibin, ievt, hypo, chi2, bllh, ullh,
                   minima, fitvars, thrvars, chi2_own>>

NextGrid == GridStep

SpecGrid == InitGrid /\ [][NextGrid]_vars

GridBuilt == pc = "grid" /\ itau = Ntau_steps + 1

\* C5: the grid has Ntau_steps+1 values, evenly spaced by one same step,
\* strictly increasing, the first equal to min_tau and the last equal to
\* max_tau exactly.
C5_GridEvenAndExact ==
    GridBuilt =>
        /\ Cardinality(DOMAIN tau) = Ntau_steps + 1
        /\ \A i \in 0 .. (Ntau_steps - 1) : tau[i + 1] - tau[i] = tau[1] - tau[0]
        /\ \A i \in 0 .. (Ntau_steps - 1) : tau[i] < tau[i + 1]
        /\ tau[0] = min_tau
        /\ tau[Ntau_steps] = max_tau

(***************************************************************************)
(* One iteration of the scan loop, statement by statement.                 *)
(***************************************************************************)
NexpVals == {0, Scale \div 2, Scale, 2 * Scale}
DensVals == {0, Scale \div 2}

\* What the model predicts at one hypothesis: nexp of every bin (line 234)
\* and the density of every event (line 248).  0 is an np.exp that underflowed.
ResponsesFor(times) ==
    [nexp : [Bins -> NexpVals], dens : [1 .. Len(times) -> DensVals]]

\* if (score < minval): minval = score; minpos = tau_hypo
MinUpdate(minval, minpos, score, tau_hypo) ==
    IF score < minval THEN <<score, tau_hypo>> ELSE <<minval, minpos>>

\* tau_hypo = ...; tau[itau] = tau_hypo; chi2[itau] = 0.0; bllh[itau] = 0.0
IterStart(h) ==
    /\ pc = "iter"
    /\ itau = 0
    /\ hypo' = h
    /\ tau' = [tau EXCEPT ![itau] = TauHypo(itau)]
    /\ chi2' = [chi2 EXCEPT ![itau] = 0]
    /\ bllh' = [bllh EXCEPT ![itau] = 0]
    /\ ibin' = 0
    /\ pc' = "bins"
    /\ visits' = Append(visits, itau)
    /\ UNCHANGED <<err, notloops, miracle, settings, data, itau, ievt, ullh, minima, fitvars, thrvars,
                   chi2_own>>

\* for ibin in range(Nbins): the body, lines 230-240
EvalBin ==
    /\ pc = "bins"
    /\ ibin < Nbins
    /\ chi2' = [chi2 EXCEPT ![itau] = Chi2Add(@, yExp[ibin], hypo.nexp[ibin])]
    /\ bllh' = [bllh EXCEPT ![itau] = BllhAdd(@, yExp[ibin], hypo.nexp[ibin])]
    /\ ibin' = ibin + 1
    /\ UNCHANGED <<err, aside, settings, data, pc, itau, ievt, hypo, tau, ullh, minima,
                   fitvars, thrvars, chi2_own>>

\* the bin loop ends; ullh[itau] = 0.0
BinsDone ==
    /\ pc = "bins"
    /\ ibin = Nbins
    /\ ullh' = [ullh EXCEPT ![itau] = 0]
    /\ ievt' = 0
    /\ pc' = "events"
    /\ UNCHANGED <<err, aside, settings, data, itau, ibin, hypo, tau, chi2, bllh, minima,
                   fitvars, thrvars, chi2_own>>

\* for time in t: ullh[itau] += ...
EvalEvent ==
    /\ pc = "events"
    /\ ievt < Len(t)
    /\ ullh' = [ullh EXCEPT ![itau] = UllhAdd(@, hypo.dens[ievt + 1])]
    /\ ievt' = ievt + 1
    /\ UNCHANGED <<err, aside, settings, data, pc, itau, ibin, hypo, tau, chi2, bllh,
                   minima, fitvars, thrvars, chi2_own>>

\* Search for minimum values of chi2, bllh, and ullh (lines 254-262)
MinSearch ==
    /\ pc = "events"
    /\ ievt = Len(t)
    /\ LET c == MinUpdate(chi2_minval, chi2_minpos, chi2[itau], tau[itau])
           b == MinUpdate(bllh_minval, bllh_minpos, bllh[itau], tau[itau])
           u == MinUpdate(ullh_minval, ullh_minpos, ullh[itau], tau[itau])
       IN  /\ chi2_minval' = c[1] /\ chi2_minpos' = c[2]
           /\ bllh_minval' = b[1] /\ bllh_minpos' = b[2]
           /\ ullh_minval' = u[1] /\ ullh_minpos' = u[2]
    /\ itau' = itau + 1
    /\ pc' = "iterDone"
    /\ UNCHANGED <<err, aside, settings, data, ibin, ievt, hypo, curves, fitvars, thrvars,
                   chi2_own>>

\* TheChiSquareMiracle: y = counts[counts>0]; sy = np.sqrt(y);
\* chi2 = np.sum(((y - y_fit) / sy)**2)
RECURSIVE Chi2Owncalc(_, _, _)
Chi2Owncalc(counts, y_fit, k) ==
    IF k = 0 THEN 0
    ELSE Chi2Owncalc(counts, y_fit, k - 1)
         + (IF counts[k - 1] > 0
            THEN ((counts[k - 1] * Scale - y_fit[k - 1])
                  * (counts[k - 1] * Scale - y_fit[k - 1]))
                 \div (counts[k - 1] * Scale)
            ELSE 0)

OwnCalc(h) ==
    /\ pc = "iter"
    /\ hypo' = h
    /\ chi2_own' = Chi2Owncalc(yExp, h.nexp, Nbins)
    /\ pc' = "ownDone"
    /\ UNCHANGED <<err, aside, settings, data, itau, ibin, ievt, curves, minima, fitvars,
                   thrvars>>

EventSeqs == UNION {[1 .. n -> EventClasses] : n \in 0 .. MaxEvents}

InitEval ==
    \E times \in EventSeqs :
        /\ Fresh(1, 8, 16, 1, 1, times)
        /\ hypo = NoHypo
        /\ pc = "iter"
        /\ AsideIdle

NextEval ==
    \/ \E h \in ResponsesFor(t) : IterStart(h)
    \/ EvalBin
    \/ BinsDone
    \/ EvalEvent
    \/ MinSearch
    \/ \E h \in ResponsesFor(t) : OwnCalc(h)

SpecEval == InitEval /\ [][NextEval]_vars

(***************************************************************************)
(* Claims about the evaluators (SpecEval).                                 *)
(***************************************************************************)
RECURSIVE SumOver(_, _)
SumOver(S, f) ==
    IF S = {} THEN 0
    ELSE LET x == CHOOSE y \in S : TRUE IN f[x] + SumOver(S \ {x}, f)

\* The bins the bin loop has gone through in this iteration.
BinsSeen == IF pc = "bins" THEN 0 .. (ibin - 1) ELSE Bins

Evaluating == pc \in {"bins", "events", "iterDone"}

ResidualSquaredOverNobs ==
    [b \in Bins |->
        IF yExp[b] > 0
        THEN ((yExp[b] * Scale - hypo.nexp[b]) * (yExp[b] * Scale - hypo.nexp[b]))
             \div (yExp[b] * Scale)
        ELSE 0]

\* The Poisson term of a bin; of an empty bin it is -2*log(exp(-nexp)) = 2*nexp.
PoissonTerm ==
    [b \in Bins |->
        IF yExp[b] = 0 THEN 2 * hypo.nexp[b]
        ELSE NegTwoLogPoisson(yExp[b], hypo.nexp[b])]

\* C6: chi2 of a hypothesis is the sum of (nobs-nexp)^2/nobs over exactly the
\* bins with nobs > 0; a bin with nobs = 0 adds nothing to chi2 but adds its
\* Poisson term to bllh.
C6_Chi2SkipsEmptyBinsBllhDoesNot ==
    Evaluating =>
        /\ chi2[0] = SumOver({b \in BinsSeen : yExp[b] > 0}, ResidualSquaredOverNobs)
        /\ bllh[0] = IF \E b \in BinsSeen : PoissonTerm[b] = PosInf
                     THEN PosInf
                     ELSE SumOver(BinsSeen, PoissonTerm)

C6_Witness ==
    /\ pc = "events"
    /\ \E b \in Bins : yExp[b] = 0 /\ hypo.nexp[b] > 0
    /\ \E b \in Bins : yExp[b] > 0
    /\ chi2[0] > 0
    /\ bllh[0] > chi2[0]
    /\ bllh[0] # PosInf

\* C7: a bin with nobs = nexp adds 0 to chi2, no bin adds a negative amount,
\* and no chi2 (of the scan or of chi2_owncalc) is negative.
C7_Chi2TermsNonNegative ==
    /\ [](chi2_own >= 0 /\ \A i \in DOMAIN chi2 : chi2[i] >= 0)
    /\ []((pc = "ownDone" /\ \A b \in Bins :
               yExp[b] > 0 => yExp[b] * Scale = hypo.nexp[b]) => chi2_own = 0)
    /\ [][(pc = "bins" /\ ibin < Nbins) =>
              /\ chi2'[itau] >= chi2[itau]
              /\ (yExp[ibin] * Scale = hypo.nexp[ibin]) => chi2'[itau] = chi2[itau]
         ]_vars

C7_Witness ==
    /\ pc = "events"
    /\ \E b \in Bins : yExp[b] > 0 /\ yExp[b] * Scale = hypo.nexp[b]
    /\ \E b \in Bins : yExp[b] > 0 /\ yExp[b] * Scale # hypo.nexp[b]
    /\ chi2[0] > 0

\* C8: a hypothesis with nexp <= 0 in some bin gets an invalid (non-finite)
\* bllh score, not one accumulated from that bin.
C8_BllhInvalidWhenNexpNotPositive ==
    (pc \in {"events", "iterDone"} /\ \E b \in Bins : hypo.nexp[b] <= 0)
        => bllh[0] = PosInf

\* C9: an event whose density is <= 0 is not accumulated into ullh.
C9_UllhDoesNotAccumulateLogOfNonPositive ==
    [][(pc = "events" /\ ievt < Len(t) /\ hypo.dens[ievt + 1] <= 0)
          => ullh'[itau] = ullh[itau]]_vars

(***************************************************************************)
(* Spec: the notebook from the scan loop to the threshold scan.            *)
(***************************************************************************)
RECURSIVE Chi2Upto(_, _, _)
Chi2Upto(nobs, nexp, k) ==
    IF k = 0 THEN 0 ELSE Chi2Add(Chi2Upto(nobs, nexp, k - 1), nobs[k - 1], nexp[k - 1])

RECURSIVE BllhUpto(_, _, _)
BllhUpto(nobs, nexp, k) ==
    IF k = 0 THEN 0 ELSE BllhAdd(BllhUpto(nobs, nexp, k - 1), nobs[k - 1], nexp[k - 1])

RECURSIVE UllhUpto(_, _)
UllhUpto(dens, k) ==
    IF k = 0 THEN 0 ELSE UllhAdd(UllhUpto(dens, k - 1), dens[k])

\* <<nexp of bin 0, nexp of the other bins, density of every event>>
ResponseProfiles ==
    { <<Scale, Scale, Scale>>,
      <<Scale + Scale \div 2, Scale, Scale \div 2>>,
      <<2 * Scale, Scale, Scale>>,
      <<3 * Scale, Scale, 0>>,
      <<0, 0, 0>> }

HypoResponses(times) ==
    { [nexp |-> [b \in Bins |-> IF b = 0 THEN p[1] ELSE p[2]],
       dens |-> [i \in 1 .. Len(times) |-> p[3]]] : p \in ResponseProfiles }

\* One iteration of "for itau in range(Ntau_steps+1)", lines 221-262.
ScanStep(h) ==
    /\ pc = "scan"
    /\ itau <= Ntau_steps
    /\ LET tau_hypo == TauHypo(itau)
           c2 == Chi2Upto(yExp, h.nexp, Nbins)
           bl == BllhUpto(yExp, h.nexp, Nbins)
           ul == UllhUpto(h.dens, Len(t))
           c == MinUpdate(chi2_minval, chi2_minpos, c2, tau_hypo)
           b == MinUpdate(bllh_minval, bllh_minpos, bl, tau_hypo)
           u == MinUpdate(ullh_minval, ullh_minpos, ul, tau_hypo)
       IN  /\ tau' = [tau EXCEPT ![itau] = tau_hypo]
           /\ chi2' = [chi2 EXCEPT ![itau] = c2]
           /\ bllh' = [bllh EXCEPT ![itau] = bl]
           /\ ullh' = [ullh EXCEPT ![itau] = ul]
           /\ chi2_minval' = c[1] /\ chi2_minpos' = c[2]
           /\ bllh_minval' = b[1] /\ bllh_minpos' = b[2]
           /\ ullh_minval' = u[1] /\ ullh_minpos' = u[2]
    /\ itau' = itau + 1
    /\ pc' = IF itau = Ntau_steps THEN "fit" ELSE "scan"
    /\ visits' = Append(visits, itau)
    /\ UNCHANGED <<err, notloops, miracle, settings, data, ibin, ievt, hypo, fitvars, thrvars, chi2_own>>

\* indexes = (tau>chi2_minpos-min_fit) & (tau<chi2_minpos+max_fit)
FitWindow ==
    {i \in GridIdx : /\ tau[i] > FSub(chi2_minpos, min_fit)
                     /\ tau[i] < FAdd(chi2_minpos, max_fit)}

\* The curvatures Minuit may come back with.
QuadVals == {0 - Scale, 0, 3 * Scale}

\* The cell "Perform both fits" and the unpacking of minuit.values: Minuit
\* is given the window whatever its size and always returns its values.
FitCellWith(q) ==
    /\ pc = "fit"
    /\ indexes' = FitWindow
    /\ fit' = [done |-> TRUE, minval |-> chi2_minval, minpos |-> chi2_minpos,
               quadratic |-> q, quadlow |-> q, quadhigh |-> q]
    /\ pc' = "err"
    /\ UNCHANGED <<err, aside, settings, data, itau, ibin, ievt, hypo, curves, minima,
                   thrvars, chi2_own>>

FitCell == \E q \in QuadVals : FitCellWith(q)

\* np.sqrt of a negative number is nan, and 1.0 over np.float64(0.0) is inf;
\* numpy gives a RuntimeWarning for both and goes on.
NaN == PosInf + 1

\* The integer nearest to the square root of n / d.
NearestSqrt(n, d) ==
    CHOOSE e \in 0 .. (n + 1) :
        /\ (2 * e - 1) * (2 * e - 1) * d <= 4 * n \/ e = 0
        /\ 4 * n < (2 * e + 1) * (2 * e + 1) * d

\* 1.0 / np.sqrt(quadratic), the curvature and the result in units of 1/Scale
InvSqrt(quadratic) ==
    IF quadratic < 0 THEN NaN
    ELSE IF quadratic = 0 THEN PosInf
    ELSE NearestSqrt(Scale * Scale * Scale, quadratic)

\* Variant of ErrCell that also stores the fitted minimum as the grid minimum.
ErrCellMovesMinimum ==
    /\ pc = "err"
    /\ err' = InvSqrt(fit.quadratic)
    /\ chi2_minval' = fit.minval + fit.quadratic
    /\ pc' = "threshold"
    /\ UNCHANGED <<aside, settings, data, itau, ibin, ievt, hypo, curves,
                   chi2_minpos, bllh_minval, bllh_minpos, ullh_minval, ullh_minpos,
                   fitvars, thrvars, chi2_own>>

\* The cell "err = 1.0 / np.sqrt(quadratic)" and its print.
ErrCell ==
    /\ pc = "err"
    /\ err' = InvSqrt(fit.quadratic)
    /\ pc' = "threshold"
    /\ UNCHANGED <<aside, settings, data, itau, ibin, ievt, hypo, curves, minima,
                   fitvars, thrvars, chi2_own>>

\* Variant of ThresholdPrecondition that accepts a single high boundary.
ThresholdPreconditionEitherEnd ==
    \/ chi2[0] - chi2_minval > Scale
    \/ chi2[Ntau_steps] - chi2_minval > Scale

\* (chi2[0] - chi2_minval) > 1.0 and (chi2[Ntau_steps] - chi2_minval) > 1.0
ThresholdPrecondition ==
    /\ chi2[0] - chi2_minval > Scale
    /\ chi2[Ntau_steps] - chi2_minval > Scale

\* Variant of ThresholdBody that keeps moving tau_lower while in the band.
ThresholdBodyLastInBand(st, i) ==
    LET d   == chi2[i] - chi2_minval
        st1 == IF d < Scale
               THEN [st EXCEPT !.tau_lower = tau[i], !.found_lower = TRUE]
               ELSE st
    IN  IF st1.found_lower /\ ~st1.found_upper /\ d > Scale
        THEN [st1 EXCEPT !.tau_upper = tau[i], !.found_upper = TRUE]
        ELSE st1

\* Variant of ThresholdBody that reports the last point before the crossing
\* as the upper value.
ThresholdBodyUpperBeforeCrossing(st, i) ==
    LET d   == chi2[i] - chi2_minval
        st1 == IF ~st.found_lower /\ d < Scale
               THEN [st EXCEPT !.tau_lower = tau[i], !.found_lower = TRUE]
               ELSE st
    IN  IF st1.found_lower /\ ~st1.found_upper /\ d > Scale
        THEN [st1 EXCEPT !.tau_upper = tau[i - 1], !.found_upper = TRUE]
        ELSE st1

\* The body of "for itau in range (Ntau_steps+1)" of the threshold scan.
ThresholdBody(st, i) ==
    LET d   == chi2[i] - chi2_minval
        st1 == IF ~st.found_lower /\ d < Scale
               THEN [st EXCEPT !.tau_lower = tau[i], !.found_lower = TRUE]
               ELSE st
    IN  IF st1.found_lower /\ ~st1.found_upper /\ d > Scale
        THEN [st1 EXCEPT !.tau_upper = tau[i], !.found_upper = TRUE]
        ELSE st1

RECURSIVE ThresholdLoop(_, _)
ThresholdLoop(st, i) ==
    IF i > Ntau_steps THEN st ELSE ThresholdLoop(ThresholdBody(st, i), i + 1)

\* The cell "if (ScanChi2)": the print of the band needs tau_lower and
\* tau_upper to be assigned, else Python raises NameError. A name the loop
\* does not assign keeps the value an earlier execution of the cell gave it
\* (0 stands for a name never assigned).
ThresholdCell ==
    /\ pc = "threshold"
    /\ IF ThresholdPrecondition
       THEN LET st == ThresholdLoop([found_lower |-> FALSE, found_upper |-> FALSE,
                                     tau_lower |-> tau_lower, tau_upper |-> tau_upper], 0)
            IN  /\ found_lower' = st.found_lower
                /\ found_upper' = st.found_upper
                /\ tau_lower' = st.tau_lower
                /\ tau_upper' = st.tau_upper
                /\ scan_out' = IF st.tau_lower # 0 /\ st.tau_upper # 0
                               THEN "band" ELSE "NameError"
       ELSE /\ scan_out' = "error"
            /\ UNCHANGED <<found_lower, found_upper, tau_lower, tau_upper>>
    /\ pc' = "done"
    /\ UNCHANGED <<err, aside, settings, data, itau, ibin, ievt, hypo, curves, minima,
                   fitvars, chi2_own>>

DataSets == { <<0>>, <<0, 1>>, <<0, 0, 2>> }
GridRanges == { <<8, 16>>, <<10, 44>> }
FitWindows == { <<1, 1>>, <<4, 6>>, <<30, 30>> }

Init ==
    \E N \in 1 .. MaxTauSteps, g \in GridRanges, w \in FitWindows,
       times \in DataSets :
        /\ Fresh(N, FRound(g[1], 1), FRound(g[2], 1),
                    FRound(w[1], 1), FRound(w[2], 1), times)
        /\ hypo = NoHypo
        /\ pc = "scan"
        /\ AsideIdle

Next ==
    \/ \E h \in HypoResponses(t) : ScanStep(h)
    \/ FitCell
    \/ ErrCell
    \/ ThresholdCell

Spec == Init /\ [][Next]_vars

(***************************************************************************)
(* Claims about the scan, the fit window and the threshold scan (Spec).    *)
(***************************************************************************)
Scanned == pc \in {"fit", "err", "threshold", "done"}

CurveMin(curve) ==
    CHOOSE m \in {curve[i] : i \in GridIdx} : \A i \in GridIdx : m <= curve[i]

FirstIdxAt(curve, m) ==
    CHOOSE i \in GridIdx : curve[i] = m /\ \A j \in 0 .. (i - 1) : curve[j] # m

MinRecorded(curve, minval, minpos) ==
    /\ minval = CurveMin(curve)
    /\ minpos = tau[FirstIdxAt(curve, CurveMin(curve))]

\* C1: after the scan loop, for each of chi2, bllh and ullh the recorded
\* minimum value is the smallest score of the curve and the recorded position
\* is the tau of the first grid index that attains it.
C1_MinimaAreCurveMinima ==
    Scanned =>
        /\ MinRecorded(chi2, chi2_minval, chi2_minpos)
        /\ MinRecorded(bllh, bllh_minval, bllh_minpos)
        /\ MinRecorded(ullh, ullh_minval, ullh_minpos)

\* The grid index of the minimum score and the first points, walking outward
\* from it, whose score exceeds the minimum by more than 1.0.
MinIdx == FirstIdxAt(chi2, CurveMin(chi2))
AboveBand(i) == chi2[i] - CurveMin(chi2) > Scale
OutwardLower == {i \in 0 .. (MinIdx - 1) : AboveBand(i)}
OutwardUpper == {i \in (MinIdx + 1) .. Ntau_steps : AboveBand(i)}
MaxOf(S) == CHOOSE x \in S : \A y \in S : y <= x
MinOf(S) == CHOOSE x \in S : \A y \in S : x <= y

\* C2: the reported lower and upper values are the first grid points met when
\* walking outward from the minimum index, downward and upward, whose score
\* minus the minimum score exceeds 1.0.
C2_BandIsFirstCrossingOutward ==
    (pc = "done" /\ scan_out = "band") =>
        /\ OutwardLower # {} /\ tau_lower = tau[MaxOf(OutwardLower)]
        /\ OutwardUpper # {} /\ tau_upper = tau[MinOf(OutwardUpper)]

\* C3: a reported band brackets the minimum position strictly.
C3_BandBracketsMinimum ==
    (pc = "done" /\ scan_out = "band") =>
        tau_lower < chi2_minpos /\ chi2_minpos < tau_upper

\* C4: when the first or the last grid point is not more than 1.0 above the
\* minimum the cell reports the error and computes neither value; a reported
\* value is always a point of the grid.
C4_NarrowGridIsAnError ==
    pc = "done" =>
        /\ (chi2[0] - chi2_minval <= Scale \/ chi2[Ntau_steps] - chi2_minval <= Scale)
              => /\ scan_out = "error" /\ ~found_lower /\ ~found_upper
                 /\ tau_lower = 0 /\ tau_upper = 0
        /\ scan_out = "band" =>
              /\ \E i \in GridIdx : tau_lower = tau[i]
              /\ \E i \in GridIdx : tau_upper = tau[i]

C4_Witness ==
    /\ pc = "done"
    /\ chi2[0] - chi2_minval > Scale
    /\ chi2[Ntau_steps] - chi2_minval <= Scale
    /\ scan_out = "error"

\* C10: with fewer grid points in the window than free parameters (3 for the
\* parabola, 4 for the double parabola) the fit cell returns no parameters.
C10_SmallWindowGivesNoFit ==
    (pc \in {"err", "threshold", "done"} /\ Cardinality(indexes) < 4) => ~fit.done

\* C11: when the fitted curvature is <= 0 the uncertainty extraction reports
\* a failure: it never leaves an infinite, NaN or negative value in err.
C11_NoUncertaintyFromFlatOrInvertedFit ==
    (pc \in {"threshold", "done"} /\ fit.quadratic <= 0) =>
        (err # PosInf /\ err # NaN /\ err >= 0)

\* C12: both fits use one subset of the curve, the grid points tau with
\* chi2_minpos - min_fit <= tau <= chi2_minpos + max_fit, endpoints included.
C12_WindowIncludesItsEndpoints ==
    pc \in {"err", "threshold", "done"} =>
        indexes = {i \in GridIdx : /\ tau[i] >= FSub(chi2_minpos, min_fit)
                                   /\ tau[i] <= FAdd(chi2_minpos, max_fit)}

\* C18: once the scan loop has finished, the parabola fits, the uncertainty
\* extraction and the threshold scan leave the grid, the three curves, the
\* recorded minima and the observation set as they are.
C18_PostScanCellsOnlyRead ==
    [][(pc \in {"fit", "err", "threshold"})
           => UNCHANGED <<curves, minima, data>>]_vars

C18_Witness ==
    /\ pc = "done" /\ scan_out = "band"
    /\ fit.done /\ indexes # {}
    /\ err > 0 /\ err < PosInf
    /\ chi2_minval = CurveMin(chi2)

(***************************************************************************)
(* SpecPara: the two parabola functions and the uncertainty of the fit,    *)
(* positions, values and curvatures all in units of 1/Scale.               *)
(***************************************************************************)
\* quadratic*(x-minpos)**2, rounded to the nearest unit
QuadTerm(quadratic, x, minpos) ==
    (2 * quadratic * (x - minpos) * (x - minpos) + Scale * Scale)
        \div (2 * Scale * Scale)

\* def func_para(x, minval, minpos, quadratic): return minval + quadratic*(x-minpos)**2
func_para(x, minval, minpos, quadratic) == minval + QuadTerm(quadratic, x, minpos)

\* Variant of AsymTerm that takes the lower curvature on both sides.
AsymTermLowBothSides(x, minval, minpos, quadlow, quadhigh) ==
    minval + QuadTerm(quadlow, x, minpos)

\* if (x < minpos): minval + quadlow*(x-minpos)**2  else: minval + quadhigh*(x-minpos)**2
AsymTerm(x, minval, minpos, quadlow, quadhigh) ==
    IF x < minpos
    THEN minval + QuadTerm(quadlow, x, minpos)
    ELSE minval + QuadTerm(quadhigh, x, minpos)

\* for x in X: return_arr.append(...)
RECURSIVE AsymLoop(_, _, _, _, _, _, _)
AsymLoop(Xs, i, return_arr, minval, minpos, quadlow, quadhigh) ==
    IF i > Len(Xs) THEN return_arr
    ELSE AsymLoop(Xs, i + 1,
                  Append(return_arr, AsymTerm(Xs[i], minval, minpos, quadlow, quadhigh)),
                  minval, minpos, quadlow, quadhigh)

\* def func_asympara(X, minval, minpos, quadlow, quadhigh)
func_asympara(Xs, minval, minpos, quadlow, quadhigh) ==
    AsymLoop(Xs, 1, <<>>, minval, minpos, quadlow, quadhigh)

XVals == {0, 1, Scale + 1, 2 * Scale}
ArgArrays == UNION {[1 .. n -> XVals] : n \in 0 .. MaxX}
MinvalVals == {0, 5 * Scale}
MinposVals == {0, Scale + 1}
CurvatureVals == {Scale, 3 * Scale}

InitPara ==
    /\ Fresh(1, 8, 16, 1, 1, <<>>) /\ hypo = NoHypo
    /\ \E Xs \in ArgArrays : X = Xs
    /\ ret = NoRet
    /\ CorrIdle /\ MiracleIdle /\ AnimIdle /\ LaterIdle /\ visits = <<>> /\ TwiceIdle
    /\ pc = "para"

\* minval, minpos, quadratic = minuit_chi2.values and
\* minval_2p, minpos_2p, quadlow_2p, quadhigh_2p = minuit_chi2_doublep.values
FitValues(mv, mp, q, ql, qh) ==
    /\ pc = "para"
    /\ fit' = [done |-> TRUE, minval |-> mv, minpos |-> mp, quadratic |-> q,
               quadlow |-> ql, quadhigh |-> qh]
    /\ pc' = "funcs"
    /\ UNCHANGED <<err, aside, settings, data, itau, ibin, ievt, hypo, curves,
                   minima, indexes, thrvars, chi2_own>>

\* func_para(X, minval, minpos, quadratic), numpy applying it to every element
CallPara ==
    /\ pc = "funcs"
    /\ "para" \notin ret.calls
    /\ ret' = [ret EXCEPT
                 !.para = [i \in 1 .. Len(X) |->
                              func_para(X[i], fit.minval, fit.minpos, fit.quadratic)],
                 !.calls = @ \cup {"para"}]
    /\ UNCHANGED <<err, X, notpara, settings, data, pc, itau, ibin, ievt, hypo, curves,
                   minima, fitvars, thrvars, chi2_own>>

\* func_asympara(X, minval_2p, minpos_2p, quadlow_2p, quadhigh_2p)
CallAsympara ==
    /\ pc = "funcs"
    /\ "asym" \notin ret.calls
    /\ ret' = [ret EXCEPT
                 !.asym = func_asympara(X, fit.minval, fit.minpos,
                                        fit.quadlow, fit.quadhigh),
                 !.calls = @ \cup {"asym"}]
    /\ UNCHANGED <<err, X, notpara, settings, data, pc, itau, ibin, ievt, hypo, curves,
                   minima, fitvars, thrvars, chi2_own>>

\* err = 1.0 / np.sqrt(quadratic)
ErrExtract ==
    /\ pc = "funcs"
    /\ "err" \notin ret.calls
    /\ err' = InvSqrt(fit.quadratic)
    /\ ret' = [ret EXCEPT !.calls = @ \cup {"err"}]
    /\ UNCHANGED <<X, notpara, settings, data, pc, itau, ibin, ievt, hypo, curves,
                   minima, fitvars, thrvars, chi2_own>>

NextPara ==
    \/ \E mv \in MinvalVals, mp \in MinposVals, q \in CurvatureVals \cup {4 * Scale},
          ql \in CurvatureVals, qh \in CurvatureVals : FitValues(mv, mp, q, ql, qh)
    \/ CallPara
    \/ CallAsympara
    \/ ErrExtract

SpecPara == InitPara /\ [][NextPara]_vars

\* C13: func_asympara returns one value per input, in input order: minval +
\* quadlow*(x-minpos)^2 below minpos, minval + quadhigh*(x-minpos)^2 from minpos
\* on; it is minval at x = minpos and is func_para when quadlow = quadhigh.
C13_AsymparaIsPiecewiseParabola ==
    ("asym" \in ret.calls) =>
        /\ Len(ret.asym) = Len(X)
        /\ \A i \in 1 .. Len(X) :
              /\ X[i] < fit.minpos =>
                    ret.asym[i] = fit.minval + QuadTerm(fit.quadlow, X[i], fit.minpos)
              /\ X[i] >= fit.minpos =>
                    ret.asym[i] = fit.minval + QuadTerm(fit.quadhigh, X[i], fit.minpos)
              /\ X[i] = fit.minpos => ret.asym[i] = fit.minval
        /\ fit.quadlow = fit.quadhigh =>
              ret.asym = [i \in 1 .. Len(X) |->
                             func_para(X[i], fit.minval, fit.minpos, fit.quadlow)]
        /\ ("para" \in ret.calls /\ fit.quadlow = fit.quadhigh
                /\ fit.quadratic = fit.quadlow) => ret.asym = ret.para

C13_Witness ==
    /\ "asym" \in ret.calls /\ "para" \in ret.calls
    /\ Len(X) = 2 /\ X[1] > fit.minpos /\ X[2] < fit.minpos
    /\ fit.quadlow # fit.quadhigh
    /\ ret.asym[1] # ret.asym[2] /\ ret.asym[2] > fit.minval

\* C14: for quadratic > 0 the parabola is exactly one unit above its minimum
\* at the distance err on either side of minpos.
C14_ErrIsTheUnitRiseDistance ==
    ("err" \in ret.calls /\ fit.quadratic > 0) =>
        /\ func_para(fit.minpos - err, fit.minval, fit.minpos, fit.quadratic)
              = fit.minval + Scale
        /\ func_para(fit.minpos + err, fit.minval, fit.minpos, fit.quadratic)
              = fit.minval + Scale

(***************************************************************************)
(* SpecParabola: the scan loop and the threshold scan on the curve         *)
(* f(x) = 5 + 3*(x-1.2)^2, tau in units of 0.1.                            *)
(***************************************************************************)
\* 3*(x-1.2)**2 in score units.  A double resolves the distance of every sample
\* from minval + 1.0; the score unit is coarser, so the term is rounded to the
\* unit on its own side of 1.0 and every comparison with 1.0 comes out as it
\* does for the doubles.
ParabolaRise(x) ==
    LET n == 3 * Scale * (x - 12) * (x - 12)
    IN  IF n > 100 * Scale THEN (n + 99) \div 100 ELSE n \div 100

\* f(x) = 5 + 3*(x-1.2)^2
ParabolaSample(x) == 5 * Scale + ParabolaRise(x)

ParabolaLows == 1 .. 11
ParabolaHighs == 13 .. 28

\* The grids built without any rounding: the claim about the band allows one
\* whole step, and the rounding of the grid is the matter of SpecGrid.
ExactGrid(N, lo, hi) ==
    /\ (hi - lo) % N = 0
    /\ FRound(lo, 1) = lo /\ FRound(hi, 1) = hi
    /\ FDiv(FSub(hi, lo), N) = (hi - lo) \div N
    /\ \A i \in 0 .. N :
          FAdd(lo, FMul(i, (hi - lo) \div N)) = lo + i * ((hi - lo) \div N)

InitParabola ==
    \E N \in 1 .. MaxParabolaSteps, lo \in ParabolaLows, hi \in ParabolaHighs :
        /\ ExactGrid(N, lo, hi)
        /\ Fresh(N, lo, hi, 1, 1, <<>>)
        /\ hypo = NoHypo
        /\ AsideIdle
        /\ pc = "sample"

\* One iteration of the scan loop with the parabola as the chi2 evaluator.
SampleStep ==
    /\ pc = "sample"
    /\ itau <= Ntau_steps
    /\ LET tau_hypo == TauHypo(itau)
           c2 == ParabolaSample(tau_hypo)
           c == MinUpdate(chi2_minval, chi2_minpos, c2, tau_hypo)
       IN  /\ tau' = [tau EXCEPT ![itau] = tau_hypo]
           /\ chi2' = [chi2 EXCEPT ![itau] = c2]
           /\ chi2_minval' = c[1] /\ chi2_minpos' = c[2]
    /\ itau' = itau + 1
    /\ pc' = IF itau = Ntau_steps THEN "threshold" ELSE "sample"
    /\ visits' = Append(visits, itau)
    /\ UNCHANGED <<err, notloops, miracle, settings, data, ibin, ievt, hypo, bllh, ullh,
                   bllh_minval, bllh_minpos, ullh_minval, ullh_minpos,
                   fitvars, thrvars, chi2_own>>

NextParabola == SampleStep \/ ThresholdCell

SpecParabola == InitParabola /\ [][NextParabola]_vars

\* |a - 1/sqrt(3)| <= s for distances in units of 0.1
NearInvSqrt3(a, s) ==
    /\ a - s <= 0 \/ 3 * (a - s) * (a - s) <= 100
    /\ 3 * (a + s) * (a + s) >= 100

SymmetricAboutMin ==
    \A j \in 1 .. Ntau_steps :
        (MinIdx - j >= 0 /\ MinIdx + j <= Ntau_steps) => chi2[MinIdx - j] = chi2[MinIdx + j]

RisingAwayFromMin ==
    \A i \in 0 .. (Ntau_steps - 1) :
        IF i < MinIdx THEN chi2[i] > chi2[i + 1] ELSE chi2[i] < chi2[i + 1]

likelihood == <<settings, data, itau, ibin, ievt, hypo, curves, minima,
                fitvars, thrvars, chi2_own, err>>

\* Variant of RhoValid that also rejects the two ends of the interval.
RhoValidOpenInterval(rho) == 0 - Scale < rho /\ rho < Scale

\* -1.0 <= rho12 <= 1.0
RhoValid(rho) == 0 - Scale <= rho /\ rho <= Scale

RhoVals == (0 - 2 * Scale) .. (2 * Scale)
SigVals == {1, 2, Scale}

\* mu1 = 3.5 ... rho12 = 0.0, the values left open
InitCorr ==
    /\ Fresh(1, 8, 16, 1, 1, <<>>) /\ hypo = NoHypo
    /\ ParaIdle /\ MiracleIdle /\ AnimIdle /\ visits = <<>> /\ TwiceIdle
    /\ CoffeeIdle /\ CltIdle /\ PlotsIdle
    /\ rho12 \in RhoVals /\ sig1 \in SigVals /\ sig2 \in SigVals
    /\ exc = "none" /\ ran = {} /\ vSigmaCorr = 0
    /\ pc = "check"

\* if not (-1.0 <= rho12 <= 1.0): raise ValueError(...)
\* An exception ends the run of the notebook.
CheckCell ==
    /\ pc = "check"
    /\ ran' = ran \cup {"check"}
    /\ IF RhoValid(rho12)
       THEN pc' = "sympy" /\ exc' = exc
       ELSE pc' = "halted" /\ exc' = "ValueError"
    /\ UNCHANGED <<likelihood, notcorr, plots, rho12, sig1, sig2, vSigmaCorr>>

\* sCorr = sqrt(rho*dL*dW); vSigmaCorr = fSC(rho12,vdL,vdW) and the propagation
\* formulas fdP, fdA, fdD evaluated with it
SympyCell ==
    /\ pc = "sympy"
    /\ ran' = ran \cup {"sympy"}
    /\ vSigmaCorr' = IF rho12 * sig1 * sig2 < 0 THEN NaN
                     ELSE NearestSqrt(rho12 * sig1 * sig2, Scale)
    /\ pc' = "seed"
    /\ UNCHANGED <<likelihood, notcorr, plots, rho12, sig1, sig2, exc>>

\* N_exp = 10000; save_plots = False (the value left open); r = np.random; r.seed(42)
SeedCell ==
    /\ pc = "seed"
    /\ ran' = ran \cup {"seed"}
    /\ save_plots' \in BOOLEAN
    /\ pc' = "draw"
    /\ UNCHANGED <<likelihood, notcorr, figs, saved, rho12, sig1, sig2, exc, vSigmaCorr>>

\* cov = ...; x12_all = np.random.multivariate_normal([mu1, mu2], cov, size=N_exp)
DrawCell ==
    /\ pc = "draw"
    /\ ran' = ran \cup {"draw"}
    /\ pc' = "plot2d"
    /\ UNCHANGED <<likelihood, notcorr, plots, rho12, sig1, sig2, exc, vSigmaCorr>>

\* A plot cell: figure, axes = plt.subplots(...) binds the name made, and
\* `if save_plots: <used>.savefig(file)` looks the name used up; a name never
\* bound raises NameError, which ends the run of the notebook.
PlotCell(cell, next, made, used, file) ==
    /\ pc = cell
    /\ ran' = ran \cup {cell}
    /\ figs' = figs \cup {made}
    /\ IF ~save_plots
       THEN saved' = saved /\ exc' = exc /\ pc' = next
       ELSE IF used \in figs \cup {made}
            THEN saved' = saved \cup {file} /\ exc' = exc /\ pc' = next
            ELSE saved' = saved /\ exc' = "NameError" /\ pc' = "halted"
    /\ UNCHANGED <<likelihood, notcorr, save_plots, rho12, sig1, sig2, vSigmaCorr>>

\* fig, ax = plt.subplots(figsize=(14, 8)) ... fig.savefig("Dist_2Dgauss.pdf")
Plot2DCell == PlotCell("plot2d", "perimeter", "fig", "fig", "Dist_2Dgauss.pdf")

\* figP, axP = plt.subplots(...) ... fig2.savefig("Dist_ErrorProp_Perimeter.pdf")
PerimeterCell ==
    PlotCell("perimeter", "area", "figP", "fig2", "Dist_ErrorProp_Perimeter.pdf")

\* figA, axA = plt.subplots(...) ... fig2.savefig("Dist_ErrorProp_Area.pdf")
AreaCell == PlotCell("area", "diagonal", "figA", "fig2", "Dist_ErrorProp_Area.pdf")

\* figD, axD = plt.subplots(...) ... fig2.savefig("Dist_ErrorProp_Diagonal.pdf")
DiagonalCell == PlotCell("diagonal", "end", "figD", "fig2", "Dist_ErrorProp_Diagonal.pdf")

NextCorr ==
    \/ CheckCell \/ SympyCell \/ SeedCell \/ DrawCell
    \/ Plot2DCell \/ PerimeterCell \/ AreaCell \/ DiagonalCell

SpecCorr == InitCorr /\ [][NextCorr]_vars

\* C16: a correlation outside [-1, 1] raises ValueError at the validity check,
\* before any propagation formula is evaluated and before any random number is
\* drawn; -1 and 1 themselves are accepted.
C16_BadCorrelationStopsAtTheCheck ==
    /\ ~RhoValid(rho12) =>
          /\ ran \subseteq {"check"}
          /\ "check" \in ran => (exc = "ValueError" /\ pc = "halted")
    /\ (rho12 = Scale \/ rho12 = 0 - Scale) => exc # "ValueError"
    /\ (exc # "ValueError" /\ "check" \in ran) => (0 - Scale <= rho12 /\ rho12 <= Scale)

C16_Witness ==
    /\ rho12 = Scale + Scale \div 2
    /\ "check" \in ran
    /\ exc = "ValueError"

\* C28: for every correlation the validity check accepts, sigma_LW =
\* sqrt(rho12*sigma_L*sigma_W) is the square root of a non-negative number,
\* so the correlated uncertainties are defined real numbers.
C28_CovarianceTermIsReal ==
    ("sympy" \in ran) => (rho12 * sig1 * sig2 >= 0 /\ vSigmaCorr # NaN)

PlotFiles == {"Dist_2Dgauss.pdf", "Dist_ErrorProp_Perimeter.pdf",
              "Dist_ErrorProp_Area.pdf", "Dist_ErrorProp_Diagonal.pdf"}

\* C30: with save_plots set to True every figure name passed to savefig was
\* bound by an earlier step, so the notebook runs to its end and saves each
\* plot it made.
C30_EverySavedFigureExists ==
    save_plots =>
        /\ exc # "NameError"
        /\ pc # "halted"
        /\ pc = "end" => saved = PlotFiles

(***************************************************************************)
(* SpecLoops: the two scan loops, iteration by iteration.                  *)
(***************************************************************************)
\* Variant of MiracleStep that moves on by two points.
MiracleStepSkipping(h) ==
    /\ i_chi2 < NScan
    /\ y_chi2' = [y_chi2 EXCEPT ![i_chi2] = Chi2Owncalc(yExp, h.nexp, Nbins)]
    /\ owncalls' = Append(owncalls, i_chi2)
    /\ i_chi2' = i_chi2 + 2
    /\ UNCHANGED <<likelihood, pc, notloops, visits>>

\* for i in range(len(y_chi2)): y_chi2[i] = chi2_owncalc(mfit.values[0], x_chi2[i], mfit.values[2])
MiracleStep(h) ==
    /\ i_chi2 < NScan
    /\ y_chi2' = [y_chi2 EXCEPT ![i_chi2] = Chi2Owncalc(yExp, h.nexp, Nbins)]
    /\ owncalls' = Append(owncalls, i_chi2)
    /\ i_chi2' = i_chi2 + 1
    /\ UNCHANGED <<likelihood, pc, notloops, visits>>

InitLoops ==
    \E N \in 1 .. MaxTauSteps, times \in DataSets :
        /\ Fresh(N, 8, 16, 1, 1, times)
        /\ hypo = NoHypo
        /\ AsideIdle
        /\ pc = "scan"

\* Two of the model responses are enough to tell the entries apart.
LoopResponses(times) == {h \in HypoResponses(times) : h.nexp[0] \in {Scale, 2 * Scale}}

NextLoops ==
    \/ \E h \in LoopResponses(t) : ScanStep(h)
    \/ \E h \in LoopResponses(t) : MiracleStep(h)

SpecLoops == InitLoops /\ [][NextLoops]_vars

\* <<0, 1, ..., n-1>>
UpTo(n) == [k \in 1 .. n |-> k - 1]

SeedValue == 42        \* r.seed(42)
RngMod == 16           \* number of states of the modelled generator

\* The state a new kernel finds np.random in comes from the operating system.
EntropyVals == {0, 1, 7}

\* Variant of SeedState for a notebook that leaves the generator as it found it.
SeedStateUnseeded(old) == old

\* r.seed(42): the state of the generator after seeding
SeedState(old) == SeedValue % RngMod

\* One step of the generator.
Lcg(state) == (5 * state + 3) % RngMod

\* t = r.exponential(tau_truth, Ntimes): Ntimes draws, one after the other
RECURSIVE DrawTimes(_, _)
DrawTimes(state, n) ==
    IF n = 0 THEN [times |-> <<>>, rng |-> state]
    ELSE LET d  == DrawTimes(state, n - 1)
             s1 == Lcg(d.rng)
         IN  [times |-> Append(d.times, s1 % (Nbins + 1)), rng |-> s1]

OracleProfiles == { <<Scale, Scale, Scale>>, <<3 * Scale, Scale, Scale>> }

\* nexp of every bin and density of every event, for the profile p
HypoResponseOf(p, times) ==
    [nexp |-> [b \in Bins |-> IF b = 0 THEN p[1] ELSE p[2]],
     dens |-> [i \in 1 .. Len(times) |-> p[3]]]

InitTwice ==
    \E N \in 1 .. MaxTauSteps, nt \in 1 .. MaxEvents, e \in EntropyVals, q \in QuadVals :
      \E prof \in [0 .. N -> OracleProfiles] :
        /\ Fresh(N, 8, 16, 4, 6, <<>>)
        /\ hypo = NoHypo
        /\ ParaIdle /\ CorrIdle /\ MiracleIdle /\ AnimIdle /\ LaterIdle /\ visits = <<>>
        /\ Ntimes_set = nt /\ rng = e
        /\ oracle = [profile |-> prof, quadratic |-> q]
        /\ run = 1 /\ first = NoResults
        /\ pc = "seed"

\* r = np.random; r.seed(42)
SeedFitCell ==
    /\ pc = "seed"
    /\ rng' = SeedState(rng)
    /\ pc' = "generate"
    /\ UNCHANGED <<likelihood, nottwice, visits, Ntimes_set, oracle, run, first>>

\* t = r.exponential(tau_truth, Ntimes); yExp, xExp_edges = np.histogram(...)
GenerateCell ==
    /\ pc = "generate"
    /\ LET d == DrawTimes(rng, Ntimes_set)
       IN  /\ t' = d.times
           /\ yExp' = Histogram(d.times)
           /\ rng' = d.rng
    /\ pc' = "scan"
    /\ UNCHANGED <<settings, itau, ibin, ievt, hypo, curves, minima, fitvars,
                   thrvars, chi2_own, err, nottwice, visits,
                   Ntimes_set, oracle, run, first>>

\* What an execution leaves behind.
Results ==
    [t |-> t, yExp |-> yExp, curves |-> curves, minima |-> minima,
     fit |-> fit, err |-> err, band |-> <<scan_out, tau_lower, tau_upper>>]

\* The kernel is restarted: every name is gone, the generator is in a state of
\* the system's choosing, and the cells before the scan loop run again.
Restart ==
    /\ pc = "done" /\ run = 1
    /\ first' = Results
    /\ run' = 2
    /\ rng' \in EntropyVals
    /\ t' = <<>> /\ yExp' = Histogram(<<>>)
    /\ itau' = 0 /\ ibin' = 0 /\ ievt' = 0 /\ hypo' = NoHypo
    /\ tau' = Zeros(Ntau_steps) /\ chi2' = Zeros(Ntau_steps)
    /\ bllh' = Zeros(Ntau_steps) /\ ullh' = Zeros(Ntau_steps)
    /\ chi2_minval' = MinvalInit /\ chi2_minpos' = 0
    /\ bllh_minval' = MinvalInit /\ bllh_minpos' = 0
    /\ ullh_minval' = MinvalInit /\ ullh_minpos' = 0
    /\ indexes' = {} /\ fit' = NoFit
    /\ found_lower' = FALSE /\ found_upper' = FALSE
    /\ tau_lower' = 0 /\ tau_upper' = 0 /\ scan_out' = "none"
    /\ err' = 0 /\ visits' = <<>>
    /\ pc' = "seed"
    /\ UNCHANGED <<settings, chi2_own, nottwice, Ntimes_set, oracle>>

NextTwice ==
    \/ SeedFitCell
    \/ GenerateCell
    \/ ScanStep(HypoResponseOf(oracle.profile[itau], t))
    \/ FitCellWith(oracle.quadratic)
    \/ ErrCell
    \/ ThresholdCell
    \/ Restart

SpecTwice == InitTwice /\ [][NextTwice]_vars

\* C19: two executions from a fresh state, seeded with 42 and drawing in the
\* same order, give the same observation set, score curves, recorded minima and
\* uncertainty band.
C19_SecondExecutionRepeatsTheFirst ==
    /\ (run = 2 /\ pc \notin {"seed", "generate"}) => (t = first.t /\ yExp = first.yExp)
    /\ (run = 2 /\ pc = "done") => Results = first

C19_Witness ==
    /\ run = 2 /\ pc = "done"
    /\ Len(t) >= 2
    /\ Results = first
    /\ scan_out = "band"
    /\ \E i \in GridIdx : chi2[i] # chi2[0]

(***************************************************************************)
(* SpecAnim: the interactive chi2 plot of Chi2_minimization_animation,     *)
(* one call of animate_linear_chi2_fit for every move of the slider.       *)
(***************************************************************************)
MaxCalls == 3          \* calls of animate_linear_chi2_fit in a session

\* x, y of the notebook, two points standing for its ten; sy = 1
xData == <<1, 2>>
yData == <<2, 3>>

\* the slider: p0 from -2.0 to 5.0
P0Vals == {0 - 2, 0, 1, 2, 5}

\* def linear(x, a): y = a*x
linear(xs, a) == [i \in 1 .. Len(xs) |-> a * xs[i]]

\* def calc_chi2(yhat, y, sy): chi2 = np.sum((yhat-y)**2 / sy**2)
RECURSIVE SumSquares(_, _, _)
SumSquares(yhat, ys, k) ==
    IF k = 0 THEN 0
    ELSE SumSquares(yhat, ys, k - 1) + (yhat[k] - ys[k]) * (yhat[k] - ys[k])

calc_chi2(yhat, ys) == SumSquares(yhat, ys, Len(ys))

InitAnim ==
    /\ Fresh(1, 8, 16, 1, 1, <<>>) /\ hypo = NoHypo
    /\ ParaIdle /\ CorrIdle /\ MiracleIdle /\ visits = <<>> /\ TwiceIdle
    /\ AnimIdle /\ LaterIdle
    /\ pc = "slider"

\* animate_linear_chi2_fit with lists that keep one entry per distinct p0
animate_linear_chi2_fitOncePerValue(p0) ==
    /\ pc = "slider"
    /\ Len(p0_list) < MaxCalls
    /\ LET yhat == linear(xData, p0)
           c2   == calc_chi2(yhat, yData)
           seen == \E i \in 1 .. Len(p0_list) : p0_list[i] = p0
           pl   == IF seen THEN SelectSeq(p0_list, LAMBDA v : v # p0) \o <<p0>>
                   ELSE Append(p0_list, p0)
           cl   == IF seen THEN SelectSeq(chi2_list, LAMBDA v : v # c2) \o <<c2>>
                   ELSE Append(chi2_list, c2)
       IN  /\ p0_list' = pl
           /\ chi2_list' = cl
           /\ shown' = [p0 |-> p0, chi2 |-> c2,
                        points |-> [i \in 1 .. Len(pl) |-> <<pl[i], cl[i]>>]]
    /\ UNCHANGED <<likelihood, pc, notanim>>

\* def animate_linear_chi2_fit(p0=0): the lists are the notebook's globals; the
\* right-hand plot shows ax[1].plot(p0_list, chi2_list, 'o').
animate_linear_chi2_fit(p0) ==
    /\ pc = "slider"
    /\ Len(p0_list) < MaxCalls
    /\ LET yhat == linear(xData, p0)
           c2   == calc_chi2(yhat, yData)
       IN  /\ p0_list' = Append(p0_list, p0)
           /\ chi2_list' = Append(chi2_list, c2)
           /\ shown' = [p0 |-> p0, chi2 |-> c2,
                        points |-> [i \in 1 .. (Len(p0_list) + 1) |->
                                       <<Append(p0_list, p0)[i], Append(chi2_list, c2)[i]>>]]
    /\ UNCHANGED <<likelihood, pc, notanim>>

NextAnim == \E p0 \in P0Vals : animate_linear_chi2_fit(p0)

SpecAnim == InitAnim /\ [][NextAnim]_vars

\* C20: no call reads or writes state left behind by an earlier call: what a
\* call shows depends on its own input and the observation set only, so the
\* figure of a call holds the one point of its own p0, whatever calls came
\* before it.
C20_CallsShareNoState ==
    shown.points \in {<<>>, << <<shown.p0, shown.chi2>> >>}

\* C21: after k calls both lists have length k, entry i holds the p0 of the
\* i-th call and the chi-square computed for it, and a call appends one entry
\* (a repeated p0 included) without changing, reordering or removing the
\* entries written before.
C21_ListsAreAnAppendOnlyLog ==
    /\ [](/\ Len(p0_list) = Len(chi2_list)
          /\ Len(shown.points) = Len(p0_list)
          /\ \A i \in 1 .. Len(p0_list) :
                chi2_list[i] = calc_chi2(linear(xData, p0_list[i]), yData))
    /\ [][/\ p0_list' = Append(p0_list, shown'.p0)
          /\ chi2_list' = Append(chi2_list, shown'.chi2)]_vars

C21_Witness ==
    /\ Len(p0_list) = 3
    /\ p0_list[1] = p0_list[3]
    /\ p0_list[2] # p0_list[1]
    /\ chi2_list[3] = chi2_list[1]

(***************************************************************************)
(* SpecCoffee: the coffee usage notebook, the straight-line fit in a range *)
(* of days, its legend, and the range of the advanced fit.                 *)
(***************************************************************************)
days == <<0, 9, 14, 21, 23, 36, 65, 76, 86, 99, 194, 280, 309>>
cups == <<28479, 28674, 28777, 28964, 29041, 29374, 29650, 30001, 30221, 30498,
          32412, 33676, 34008>>

\* ecups = np.ones_like(cups)*30.0
ecups == 30

\* Variant of RangeMask that keeps the two ends of the range.
RangeMaskClosed(lo, hi) == [i \in 1 .. Len(days) |-> lo <= days[i] /\ days[i] <= hi]

\* mask_range = (xmin < days) & (days < xmax)
RangeMask(lo, hi) == [i \in 1 .. Len(days) |-> lo < days[i] /\ days[i] < hi]

\* the sum of f over the points the mask keeps
RECURSIVE MaskedSum(_, _, _)
MaskedSum(f, mask, k) ==
    IF k = 0 THEN 0
    ELSE MaskedSum(f, mask, k - 1) + (IF mask[k] THEN f[k] ELSE 0)

\* a / b to the nearest integer, b > 0
RoundDiv(a, b) == (a \div b) + (IF 2 * (a % b) >= b THEN 1 ELSE 0)

\* cost.LeastSquares(days[mask], cups[mask], ecups[mask], func_coffee_simple) at
\* the minimum migrad finds for p0 + p1*x: the slope p1 = p1num / p1den, the
\* residuals to the nearest cup, fval in tenths (the legend prints it as .1f).
LeastSquaresLine(mask) ==
    LET K    == Len(days)
        ones == [i \in 1 .. K |-> 1]
        n    == MaskedSum(ones, mask, K)
        Sx   == MaskedSum(days, mask, K)
        Sy   == MaskedSum(cups, mask, K)
        Sxy  == MaskedSum([i \in 1 .. K |-> days[i] * cups[i]], mask, K)
        Sxx  == MaskedSum([i \in 1 .. K |-> days[i] * days[i]], mask, K)
        D    == n * Sxx - Sx * Sx
        N    == n * Sxy - Sx * Sy
        r    == [i \in 1 .. K |->
                    RoundDiv(D * (n * cups[i] - Sy) - N * (n * days[i] - Sx), n * D)]
        rss  == MaskedSum([i \in 1 .. K |-> r[i] * r[i]], mask, K)
    IN  IF D = 0
        THEN [n |-> n, p1num |-> 0, p1den |-> 1, fval |-> 0, valid |-> FALSE]
        ELSE [n |-> n, p1num |-> N, p1den |-> D,
              fval |-> RoundDiv(10 * rss, ecups * ecups), valid |-> TRUE]

\* the ranges tried for the simple fit, (60, 105) among them
XminVals == {0 - 10, 0, 9, 14, 21, 23, 36, 60}
XmaxVals == {87, 99, 100, 105, 110, 190}

InitCoffee ==
    /\ Fresh(1, 8, 16, 1, 1, <<>>) /\ hypo = NoHypo
    /\ ParaIdle /\ CorrIdle /\ MiracleIdle /\ AnimIdle /\ visits = <<>> /\ TwiceIdle
    /\ CoffeeIdle /\ CltIdle /\ PlotsIdle
    /\ pc = "simple"

\* xmin, xmax = 60, 105; mask_range = ...; mfit_coffee.migrad()
SimpleFitCell ==
    /\ pc = "simple"
    /\ \E lo \in XminVals, hi \in XmaxVals :
          /\ xmin' = lo /\ xmax' = hi
          /\ mask_range' = RangeMask(lo, hi)
          /\ mfit_coffee' = LeastSquaresLine(RangeMask(lo, hi))
    /\ pc' = "legend"
    /\ UNCHANGED <<likelihood, notcoffee, fit_info>>

\* Variant of LegendCell that counts one fitted parameter.
LegendCellOneParameter ==
    /\ pc = "legend"
    /\ fit_info' = [chi2_lin |-> mfit_coffee.fval,
                    Ndof_lin |-> mfit_coffee.n - 1,
                    shown |-> TRUE]
    /\ pc' = "advanced"
    /\ UNCHANGED <<likelihood, notcoffee, xmin, xmax, mask_range, mfit_coffee>>

\* chi2_lin = mfit_coffee.fval
\* Ndof_lin = len(days[mask_range]) - len(mfit_coffee.values[:])
LegendCell ==
    /\ pc = "legend"
    /\ fit_info' = [chi2_lin |-> mfit_coffee.fval,
                    Ndof_lin |-> MaskedSum([i \in 1 .. Len(days) |-> 1], mask_range, Len(days)) - 2,
                    shown |-> TRUE]
    /\ pc' = "advanced"
    /\ UNCHANGED <<likelihood, notcoffee, xmin, xmax, mask_range, mfit_coffee>>

\* xmin, xmax = -10, 110; mask_range = ...  The advanced fit goes to its own
\* object minuit_coffee2 and leaves mfit_coffee and the legend as they are.
AdvancedFitCell ==
    /\ pc = "advanced"
    /\ xmin' = 0 - 10 /\ xmax' = 110
    /\ mask_range' = RangeMask(0 - 10, 110)
    /\ pc' = "end"
    /\ UNCHANGED <<likelihood, notcoffee, mfit_coffee, fit_info>>

NextCoffee == SimpleFitCell \/ LegendCell \/ AdvancedFitCell

SpecCoffee == InitCoffee /\ [][NextCoffee]_vars

\* C22: for the coffee data restricted to 60 < day < 105 the least-squares line
\* p0 + p1*day has a strictly positive slope p1, and the legend reports the
\* chi-square of the fit and Ndof = (number of selected points) - 2.
C22_CoffeeSlopeIsPositive ==
    (pc = "advanced" /\ xmin = 60 /\ xmax = 105) =>
        /\ mfit_coffee.valid
        /\ mfit_coffee.p1num * mfit_coffee.p1den > 0
        /\ fit_info.shown
        /\ fit_info.chi2_lin = mfit_coffee.fval
        /\ fit_info.Ndof_lin = Cardinality({i \in 1 .. Len(days) : mask_range[i]}) - 2

C22_Witness ==
    /\ pc = "advanced" /\ xmin = 60 /\ xmax = 105
    /\ fit_info.shown /\ fit_info.Ndof_lin = 2
    /\ mfit_coffee.p1num = 61916 /\ mfit_coffee.p1den = 2516

\* C24: the range mask keeps exactly the points with xmin < day < xmax, both
\* ends excluded: for (60, 105) the four points at days 65, 76, 86 and 99,
\* with Ndof = 2 for the line, and for (-10, 110) the first ten points.
C24_MaskKeepsTheOpenRange ==
    mask_range # <<>> =>
        /\ \A i \in 1 .. Len(days) : mask_range[i] <=> (xmin < days[i] /\ days[i] < xmax)
        /\ (xmin = 60 /\ xmax = 105) =>
              /\ {days[i] : i \in {j \in 1 .. Len(days) : mask_range[j]}} = {65, 76, 86, 99}
              /\ fit_info.shown => fit_info.Ndof_lin = 2
        /\ (xmin = 0 - 10 /\ xmax = 110) => {j \in 1 .. Len(days) : mask_range[j]} = 1 .. 10

C24_Witness ==
    /\ pc = "end"
    /\ xmin = 0 - 10 /\ xmax = 110
    /\ Cardinality({j \in 1 .. Len(days) : mask_range[j]}) = 10
    /\ fit_info.Ndof_lin = 2

(***************************************************************************)
(* SpecClt: the central limit notebook, the experiment loop one iteration  *)
(* at a time, the random numbers and the sums in units of 1/Scale.         *)
(***************************************************************************)
MaxExperiments == 2    \* N_experiments (the notebook uses 1000)
MaxPerKind == 1        \* N_uniform, N_exponential, N_cauchy (the notebook uses 10, 0, 0)

\* (np.random.uniform() - 0.5) * np.sqrt(12): two of the values in (-1.73, 1.73)
UniformVals == {0 - Scale, Scale}

\* np.random.exponential() - 1: two of the values above -1
ExponentialVals == {1 - Scale, 2 * Scale}

\* np.random.standard_cauchy(): any number, 3.0 and a far one among them
CauchyVals == {0 - 3 * Scale, 0, 7 * Scale}

\* x[:, iexp].sum(), 0.0 for an empty column
RECURSIVE ColumnSum(_, _)
ColumnSum(col, k) == IF k = 0 THEN 0 ELSE ColumnSum(col, k - 1) + col[k]

\* sum_value / np.sqrt(N_total) in float64: 0.0 / 0.0 is nan (a RuntimeWarning),
\* a nonzero sum over 0.0 is +-inf
DivSqrt(sum_value, total) ==
    IF total = 0
    THEN IF sum_value = 0 THEN NaN
         ELSE IF sum_value > 0 THEN PosInf ELSE 0 - PosInf
    ELSE LET root == NearestSqrt(total * Scale * Scale, 1)
         IN  IF sum_value >= 0 THEN RoundDiv(sum_value * Scale, root)
             ELSE 0 - RoundDiv((0 - sum_value) * Scale, root)

\* a < b for floats: False when either side is nan
FloatLess(a, b) == a # NaN /\ b # NaN /\ a < b

\* not (-3.0 < sum_value < 3.0)
NotWithin3Sigma(v) == ~(FloatLess(0 - 3 * Scale, v) /\ FloatLess(v, 3 * Scale))

InitClt ==
    /\ Fresh(1, 8, 16, 1, 1, <<>>) /\ hypo = NoHypo
    /\ ParaIdle /\ CorrIdle /\ MiracleIdle /\ AnimIdle /\ visits = <<>> /\ TwiceIdle
    /\ CoffeeIdle /\ CltIdle /\ PlotsIdle
    /\ pc = "settings"

\* N_experiments = 1000; N_uniform = 10; N_exponential = 0; N_cauchy = 0
CltSettingsCell ==
    /\ pc = "settings"
    /\ N_experiments' \in 1 .. MaxExperiments
    /\ N_uniform' \in 0 .. MaxPerKind
    /\ N_exponential' \in 0 .. MaxPerKind
    /\ N_cauchy' \in 0 .. MaxPerKind
    /\ pc' = "counters"
    /\ UNCHANGED <<likelihood, notclt, iexp, x_sum, N3_sigma>>

\* x_sum = np.zeros((N_experiments)); N3_sigma = 0
CountersCell ==
    /\ pc = "counters"
    /\ x_sum' = [i \in 1 .. N_experiments |-> 0]
    /\ N3_sigma' = 0
    /\ iexp' = 0
    /\ pc' = "loop"
    /\ UNCHANGED <<likelihood, notclt, N_experiments, N_uniform, N_exponential, N_cauchy>>

\* for iexp in range(N_experiments): the body, entry iexp of x_sum at index iexp + 1
ExperimentStep ==
    /\ pc = "loop"
    /\ iexp < N_experiments
    /\ \E u \in [1 .. N_uniform -> UniformVals],
          x \in [1 .. N_exponential -> ExponentialVals],
          c \in [1 .. N_cauchy -> CauchyVals] :
          LET N_total   == N_uniform + N_exponential + N_cauchy
              sum_value == DivSqrt(ColumnSum(u, N_uniform) + ColumnSum(x, N_exponential)
                                      + ColumnSum(c, N_cauchy), N_total)
          IN  /\ x_sum' = [x_sum EXCEPT ![iexp + 1] = sum_value]
              /\ N3_sigma' = IF NotWithin3Sigma(sum_value) THEN N3_sigma + 1 ELSE N3_sigma
    /\ iexp' = iexp + 1
    /\ pc' = IF iexp + 1 = N_experiments THEN "done" ELSE "loop"
    /\ UNCHANGED <<likelihood, notclt, N_experiments, N_uniform, N_exponential, N_cauchy>>

NextClt == CltSettingsCell \/ CountersCell \/ ExperimentStep

SpecClt == InitClt /\ [][NextClt]_vars

\* C23: after the experiment loop N3_sigma is the number of experiments whose
\* normalised sum lies outside the range [-3, 3], and after every iteration
\* 0 <= N3_sigma <= (experiments processed so far).
C23_CounterCountsSumsOutsideTheRange ==
    /\ 0 <= N3_sigma /\ N3_sigma <= iexp
    /\ pc = "done" =>
          N3_sigma = Cardinality({i \in 1 .. N_experiments :
                                     /\ x_sum[i] # NaN
                                     /\ (x_sum[i] < 0 - 3 * Scale \/ x_sum[i] > 3 * Scale)})

\* C29: for every configuration of non-negative N_uniform, N_exponential and
\* N_cauchy the loop divides by sqrt(N_total) with N_total > 0, so every x_sum
\* entry written is a defined number, and an experiment is counted only when
\* its sum is not inside (-3, 3).
C29_EverySumIsADefinedNumber ==
    pc \in {"loop", "done"} =>
        /\ iexp > 0 => N_uniform + N_exponential + N_cauchy > 0
        /\ \A i \in 1 .. iexp : x_sum[i] # NaN
        /\ N3_sigma = Cardinality({i \in 1 .. iexp :
                                      x_sum[i] <= 0 - 3 * Scale \/ x_sum[i] >= 3 * Scale})

(***************************************************************************)
(* SpecRerun: the notebook run to its end, then the data or the grid cell, *)
(* the arrays cell and the scan loop run again in the same kernel, the     *)
(* cell that initialises the minima left out.                              *)
(***************************************************************************)
RerunResponses(times) ==
    {h \in HypoResponses(times) : h.nexp[0] \in {Scale, 3 * Scale, 0}}

InitRerun ==
    \E N \in 1 .. MaxTauSteps, times \in DataSets :
        /\ Fresh(N, 8, 16, 4, 6, times)
        /\ hypo = NoHypo
        /\ AsideIdle
        /\ pc = "scan"

\* t = r.exponential(...) or min_tau, max_tau = ... executed again, then
\* tau = np.zeros(Ntau_steps+1) ... ullh = np.zeros(Ntau_steps+1), then the
\* loop cell: "for itau in range(Ntau_steps+1)" starts at 0 again. The cell
\* with chi2_minval = 999999.9 ... is not executed, so the minima keep their
\* values, as do all names of the later cells.
RerunScanCells ==
    /\ pc = "done" /\ run = 1
    /\ run' = 2
    /\ \E times \in DataSets, g \in GridRanges :
          /\ t' = times /\ yExp' = Histogram(times)
          /\ min_tau' = FRound(g[1], 1) /\ max_tau' = FRound(g[2], 1)
    /\ tau' = Zeros(Ntau_steps) /\ chi2' = Zeros(Ntau_steps)
    /\ bllh' = Zeros(Ntau_steps) /\ ullh' = Zeros(Ntau_steps)
    /\ itau' = 0
    /\ pc' = "scan"
    /\ UNCHANGED <<Ntau_steps, min_fit, max_fit, ibin, ievt, hypo, minima, fitvars,
                   thrvars, chi2_own, err, para, corrnb, loops, anim, coffee, clt,
                   plots, Ntimes_set, rng, oracle, first>>

NextRerun ==
    \/ \E h \in RerunResponses(t) : ScanStep(h)
    \/ FitCellWith(3 * Scale)
    \/ ErrCell
    \/ ThresholdCell
    \/ RerunScanCells

SpecRerun == InitRerun /\ [][NextRerun]_vars

\* C25: whenever the boundary precondition of the threshold scan passes, the
\* loop assigns both tau_lower and tau_upper before the report line reads
\* them, and tau_lower < tau_upper.
C25_PassedPreconditionGivesABand ==
    (pc = "done" /\ ThresholdPrecondition) =>
        /\ found_lower /\ found_upper
        /\ scan_out = "band"
        /\ tau_lower < tau_upper

\* C27: a second execution of the scan loop, on changed data or grid and
\* without the initialisation of the minima, still leaves each recorded
\* minimum equal to the minimum of the curve that execution computed, at a
\* position on that execution's grid.
C27_SecondScanRecordsItsOwnMinima ==
    (run = 2 /\ Scanned) =>
        /\ chi2_minval = CurveMin(chi2) /\ \E i \in GridIdx : chi2_minpos = tau[i]
        /\ bllh_minval = CurveMin(bllh) /\ \E i \in GridIdx : bllh_minpos = tau[i]
        /\ ullh_minval = CurveMin(ullh) /\ \E i \in GridIdx : ullh_minpos = tau[i]

=============================================================================
